---- MODULE Spec2Model ----
(***************************************************************************)
(* State-machine model of backend/server.py: the account-authenticated     *)
(* video-upload API (register, login, me, upload, list, get, delete, root) *)
(* over the two MongoDB collections db.users and db.videos.                *)
(*                                                                         *)
(* Time is counted in minutes.  A collection is the sequence of its        *)
(* documents in insertion order; find_one returns the first match.         *)
(*                                                                         *)
(* A handler is a coroutine.  It runs from the arrival of the request to   *)
(* its first await of a store call and is suspended there; the store       *)
(* executes the call at some later time; the coroutine is resumed at some  *)
(* time after that and runs to its next await or to its answer.  Each of   *)
(* these runs and each execution of a store call is one step, and steps of *)
(* different requests interleave in any order.                             *)
(***************************************************************************)
EXTENDS Integers, Sequences, FiniteSets, TLC

VARIABLES
    users,      \* db.users: the user documents, in insertion order
    videos,     \* db.videos: the video documents, in insertion order
    pending,    \* the requests in flight, each a coroutine suspended at an
                \* await of a store call: request -> count
    issued,     \* tokens the clients hold, each with the endpoint that
                \* returned it and the id of the user document that call
                \* created (register) or matched (login)
    uploaded,   \* what the clients know of their uploads: the video_id
                \* returned, the uploader's id, the body sent and the
                \* token the request carried
    now,        \* datetime.utcnow(), in minutes
    uuids,      \* number of uuid4() values drawn so far
    last        \* the request answered last, with its response

vars == <<users, videos, pending, issued, uploaded, now, uuids, last>>

----------------------------------------------------------------------------
\* Bounds of the model.

\* user documents the credential store may hold
MaxUsers == 2
\* uploads performed in one behaviour
MaxUploads == 1
\* requests in flight at one time
MaxInFlight == 2
\* stored documents whose ids the clients know without having uploaded them
MaxStoredIds == 1
\* tokens the clients keep for later requests
MaxTokens == 2
\* the clock stops advancing beyond this minute
MaxClock == 60
\* minutes the clock advances in one step
TickStep == 30

----------------------------------------------------------------------------
\* Program constants.

SECRET_KEY == "your-secret-key-change-in-production"
ALGORITHM == "HS256"
ACCESS_TOKEN_EXPIRE_MINUTES == 30
\* timedelta(minutes=15), the fallback of create_access_token
FALLBACK_EXPIRE_MINUTES == 15

\* Python's None
NoneVal == "None"

----------------------------------------------------------------------------
\* Request bodies the clients send.

\* UserCreate bodies: two for the same email with different passwords, one
\* for another email.
UserCreates ==
    { [email |-> "sarah@example.com", password |-> "SecurePass2024!", phone |-> "+1-555-0123"],
      [email |-> "sarah@example.com", password |-> "other-pass", phone |-> NoneVal],
      [email |-> "bob@example.com", password |-> "SecurePass2024!", phone |-> NoneVal] }

Emails == {"sarah@example.com", "bob@example.com"}
Passwords == {"SecurePass2024!", "other-pass"}

\* UserLogin bodies
UserLogins == [email : Emails, password : Passwords]

\* VideoUpload bodies
VideoUploads ==
    { [video_data |-> "dGVzdA==", location_lat |-> "40.7128", location_lng |-> "-74.0060",
       phone_number |-> "+1-555-0123"],
      [video_data |-> "AAAA", location_lat |-> NoneVal, location_lng |-> NoneVal,
       phone_number |-> NoneVal] }

----------------------------------------------------------------------------
\* uuid.uuid4(): a value no earlier call returned.  n is the number of uuids
\* drawn so far.
Uuid4(n) == n + 1

\* Sum of a bag given as a function to Nat.
RECURSIVE BagSize(_, _)
BagSize(f, S) ==
    IF S = {} THEN 0
    ELSE LET x == CHOOSE y \in S : TRUE
         IN f[x] + BagSize(f, S \ {x})

\* the bag with one more r, with one r less, and with s in place of r
Put(bag, r) ==
    IF r \in DOMAIN bag THEN [bag EXCEPT ![r] = @ + 1]
    ELSE [x \in DOMAIN bag \cup {r} |-> IF x = r THEN 1 ELSE bag[x]]

Take(bag, r) ==
    IF bag[r] = 1 THEN [x \in DOMAIN bag \ {r} |-> bag[x]]
    ELSE [bag EXCEPT ![r] = @ - 1]

Move(bag, r, s) == Put(Take(bag, r), s)

\* no request in flight
NoneInFlight == [x \in {} |-> 0]

\* a document not there (yet)
NoDoc == [none |-> NoneVal]

\* A request in flight: the endpoint, the store call its coroutine awaits,
\* whether the store has executed the call and what the call returned, what
\* the request carried, and the locals of the handler: the user the gate
\* returned and the document the handler built.
InFlightRequest(op, pc, cred, arg) ==
    [op |-> op, pc |-> pc, done |-> FALSE, res |-> <<>>, cred |-> cred, arg |-> arg,
     current_user |-> NoDoc, doc |-> NoDoc]

\* the coroutine calls a store operation and is suspended in the await
Await(r, pc) == [r EXCEPT !.pc = pc, !.done = FALSE, !.res = <<>>]

\* the store has executed the awaited call, which returns res: a sequence,
\* <<>> for None or an empty cursor, <<result>> for a result object
Executed(r, res) == [r EXCEPT !.done = TRUE, !.res = res]

\* r awaits the call pc of the handler op, which the store has yet to
\* execute
Waiting(r, op, pc) == r \in DOMAIN pending /\ r.op = op /\ r.pc = pc /\ ~r.done

\* the call pc that r awaits has been executed: r can be resumed
Resumable(r, op, pc) == r \in DOMAIN pending /\ r.op = op /\ r.pc = pc /\ r.done

\* requests in flight
InFlight == BagSize(pending, DOMAIN pending)

\* register requests in flight
RegistersInFlight ==
    BagSize(pending, { r \in DOMAIN pending : r.op = "register" })

----------------------------------------------------------------------------
\* Password hashing (passlib bcrypt): a salted one-way digest.

Digest(salt, plain) == <<"bcrypt", salt, plain>>

\* the salt of the n-th hashing: bcrypt draws a fresh random salt on each call
FreshSalt(n) == <<"salt", n>>

\* pwd_context.hash(password) with the salt drawn for this call
get_password_hash(password, salt) ==
    [salt |-> salt, digest |-> Digest(salt, password)]

\* pwd_context.verify(plain_password, hashed_password)
verify_password(plain_password, hashed_password) ==
    Digest(hashed_password.salt, plain_password) = hashed_password.digest

----------------------------------------------------------------------------
\* JSON Web Tokens (python-jose).

\* the HMAC of the claims under a key
Sign(claims, key) == [key |-> key, alg |-> ALGORITHM, over |-> claims]

\* jwt.encode(claims, key, algorithm=ALGORITHM)
JwtEncode(claims, key) ==
    [fmt |-> "jwt", claims |-> claims, sig |-> Sign(claims, key)]

\* JwtDecodeOk without the verification of the signature
JwtDecodeOkUnverified(token, key, t) ==
    /\ token.fmt = "jwt"
    /\ ("exp" \in DOMAIN token.claims => ~(token.claims.exp < t))

\* jwt.decode(token, key, algorithms=[ALGORITHM]) at time t: the claims, or
\* "JWTError" for a string that is no JWT, a signature that does not verify
\* or an expiry that has passed (exp < now).
JwtDecodeOk(token, key, t) ==
    /\ token.fmt = "jwt"
    /\ token.sig = Sign(token.claims, key)
    /\ ("exp" \in DOMAIN token.claims => ~(token.claims.exp < t))

\* An Optional[timedelta]: <<>> for None, <<m>> for a duration of m minutes.
timedelta(minutes) == <<minutes>>
NoDelta == <<>>

\* `if expires_delta:` is false for None and for a zero duration: a
\* timedelta is truthy only when it is not timedelta(0).
ExpiresDeltaTruthy(expires_delta) ==
    IF expires_delta = NoDelta THEN FALSE ELSE expires_delta[1] # 0

\* create_access_token always taking the else branch
create_access_token_ignores_delta(data, expires_delta, t) ==
    JwtEncode([sub |-> data.sub, exp |-> t + FALLBACK_EXPIRE_MINUTES], SECRET_KEY)

\* create_access_token(data, expires_delta) at time t
create_access_token(data, expires_delta, t) ==
    LET expire == IF ExpiresDeltaTruthy(expires_delta)
                  THEN t + expires_delta[1]
                  ELSE t + FALLBACK_EXPIRE_MINUTES
    IN JwtEncode([sub |-> data.sub, exp |-> expire], SECRET_KEY)

----------------------------------------------------------------------------
\* HTTP responses.

Response(status, headers, body) ==
    [status |-> status, headers |-> headers, body |-> body]

\* raise HTTPException(status_code, detail, headers)
HTTPException(status, detail, headers) ==
    Response(status, headers, [detail |-> detail])

NoHeaders == "none"
BearerChallenge == "WWW-Authenticate: Bearer"

\* credentials_exception of get_current_user
credentials_exception ==
    HTTPException(401, "Could not validate credentials", BearerChallenge)

\* HTTPBearer() with auto_error: a request without an Authorization header is
\* answered by the framework before the dependency body runs, with
\* "Not authenticated": status 403 in FastAPI before 0.122, 401 (with the
\* challenge header) from 0.122 on.  The source pins no version.
HTTPBearerRejections ==
    { HTTPException(403, "Not authenticated", NoHeaders),
      HTTPException(401, "Not authenticated", BearerChallenge) }

\* HTTPException(404, "Video not found") of get_video and delete_video
VideoNotFound == HTTPException(404, "Video not found", NoHeaders)

----------------------------------------------------------------------------
\* Credentials a request carries.

Bearer(token) == [header |-> "bearer", token |-> token]

GarbageToken ==
    [fmt |-> "garbage", claims |-> [junk |-> "x"], sig |-> Sign([junk |-> "x"], "none")]

\* no Authorization header at all
NoHeader == [header |-> "absent", token |-> GarbageToken]

FarFuture == MaxClock + ACCESS_TOKEN_EXPIRE_MINUTES + 1

\* Credentials that no register or login call returned: no header, a string
\* that is no JWT, a JWT signed with another key, a JWT without a subject, a
\* JWT whose subject has no user record.
ForgedCredentials ==
    { NoHeader,
      Bearer(GarbageToken),
      Bearer(JwtEncode([sub |-> "sarah@example.com", exp |-> FarFuture], "another-key")),
      Bearer(JwtEncode([exp |-> FarFuture], SECRET_KEY)),
      Bearer(JwtEncode([sub |-> "ghost@example.com", exp |-> FarFuture], SECRET_KEY)) }

\* the tokens the clients were given
Tokens == { Bearer(i.token) : i \in issued }

\* what a client may present: a token it was given, or a forged one
Credentials == Tokens \cup ForgedCredentials

----------------------------------------------------------------------------
\* The collections.

\* a document matches a query filter {field: value, ...} when it has each of
\* the filter's values on the filter's fields
Matches(doc, filter) == \A f \in DOMAIN filter : doc[f] = filter[f]

\* the positions of the documents of coll that match the filter
Matching(coll, filter) == { i \in 1..Len(coll) : Matches(coll[i], filter) }

SetMin(S) == CHOOSE x \in S : \A y \in S : x <= y

\* collection.find_one(filter): <<>> for None, else <<the first match>>
FindOne(coll, filter) ==
    IF Matching(coll, filter) = {} THEN <<>>
    ELSE <<coll[SetMin(Matching(coll, filter))]>>

\* collection.find(filter): the matches in collection order
Find(coll, filter) ==
    LET P(doc) == Matches(doc, filter) IN SelectSeq(coll, P)

\* collection.delete_one(filter): the collection without its first match
DeleteOne(coll, filter) ==
    IF Matching(coll, filter) = {} THEN coll
    ELSE LET k == SetMin(Matching(coll, filter))
         IN SubSeq(coll, 1, k - 1) \o SubSeq(coll, k + 1, Len(coll))

\* the ObjectId insert_one gives the n-th inserted document
ObjectId(n) == <<"ObjectId", n>>

\* db.users.find_one({"email": email})
FindUserByEmail(email) ==
    FindOne(users, [email |-> email])

----------------------------------------------------------------------------
\* The authentication gate: security = HTTPBearer(), then get_current_user.

\* HTTPBearer passes the request on to get_current_user
security(cred) == cred.header = "bearer"

\* payload.get("sub")
PayloadSub(claims) == IF "sub" \in DOMAIN claims THEN claims.sub ELSE NoneVal

\* GateAccepts turning away a token once a later one was issued for its subject
GateAcceptsLatestOnly(cred) ==
    /\ JwtDecodeOk(cred.token, SECRET_KEY, now)
    /\ PayloadSub(cred.token.claims) # NoneVal
    /\ \A i \in issued : i.token.claims.sub = cred.token.claims.sub
                              => i.token.claims.exp <= cred.token.claims.exp

\* the try block of get_current_user does not raise: the token decodes
\* against the clock now and has a subject
GateAccepts(cred) ==
    /\ JwtDecodeOk(cred.token, SECRET_KEY, now)
    /\ PayloadSub(cred.token.claims) # NoneVal

\* the request gets as far as the lookup of its user
Authenticated(cred) == security(cred) /\ GateAccepts(cred)

\* the answers a request gets that is turned away before the lookup
GateRejections(cred) ==
    IF ~security(cred) THEN HTTPBearerRejections ELSE {credentials_exception}

Request(op, cred, arg, resp) ==
    [op |-> op, cred |-> cred, arg |-> arg, resp |-> resp]

NoArg == [none |-> NoneVal]

\* A request arrives at a protected endpoint and is answered before any
\* await: by HTTPBearer, or by the try block of get_current_user raising
\* credentials_exception.  The handler is not called and its arguments are
\* not looked at.
Rejected(op, cred) ==
    /\ ~Authenticated(cred)
    /\ \E r \in GateRejections(cred) : last' = Request(op, cred, NoArg, r)
    /\ UNCHANGED <<users, videos, pending, issued, uploaded, now, uuids>>

\* A request arrives at a protected endpoint with a token that decodes:
\* get_current_user calls db.users.find_one and is suspended in the await.
Admitted(op, cred, arg) ==
    /\ Authenticated(cred)
    /\ InFlight < MaxInFlight
    /\ pending' = Put(pending, InFlightRequest(op, "get_current_user", cred, arg))
    /\ UNCHANGED <<users, videos, issued, uploaded, now, uuids, last>>

ProtectedOps == {"me", "upload", "list", "get", "delete"}

\* the store executes the lookup of get_current_user:
\* db.users.find_one({"email": email})
GateFindOne(r) ==
    /\ r \in DOMAIN pending
    /\ r.op \in ProtectedOps /\ r.pc = "get_current_user" /\ ~r.done
    /\ pending' = Move(pending, r,
                       Executed(r, FindUserByEmail(PayloadSub(r.cred.token.claims))))
    /\ UNCHANGED <<users, videos, issued, uploaded, now, uuids, last>>

\* get_current_user resumed with None: it raises credentials_exception
GateRaise(r) ==
    /\ r \in DOMAIN pending
    /\ r.op \in ProtectedOps /\ r.pc = "get_current_user" /\ r.done
    /\ r.res = <<>>
    /\ last' = Request(r.op, r.cred, NoArg, credentials_exception)
    /\ pending' = Take(pending, r)
    /\ UNCHANGED <<users, videos, issued, uploaded, now, uuids>>

\* get_current_user resumed with a document, which it returns: the handler
\* op is called with it
GateReturns(r, op) ==
    /\ Resumable(r, op, "get_current_user")
    /\ r.res # <<>>

----------------------------------------------------------------------------
\* Initial state: empty collections, no request in flight, nothing answered.

NoRequest == Request("none", NoHeader, NoArg, Response(0, NoHeaders, NoArg))

Init ==
    /\ users = <<>>
    /\ videos = <<>>
    /\ pending = NoneInFlight
    /\ issued = {}
    /\ uploaded = {}
    /\ now = 0
    /\ uuids = 0
    /\ last = NoRequest

\* A client keeps the token a response carried, with the endpoint that
\* answered and the id of the user document the call created (register) or
\* matched (login).
Keep(token, uid, by) ==
    IF Cardinality(issued) < MaxTokens
    THEN issued \cup {[token |-> token, uid |-> uid, by |-> by]}
    ELSE issued

\* datetime.utcnow() advances
Tick ==
    /\ now + TickStep <= MaxClock
    /\ now' = now + TickStep
    /\ UNCHANGED <<users, videos, pending, issued, uploaded, uuids, last>>

----------------------------------------------------------------------------
\* POST /api/register

TokenResponse(access_token) ==
    Response(200, NoHeaders, [access_token |-> access_token, token_type |-> "bearer"])

EmailAlreadyRegistered == HTTPException(400, "Email already registered", NoHeaders)

\* register requests in flight that may still insert a user document
RegistersBeforeInsert ==
    BagSize(pending, { r \in DOMAIN pending :
                          /\ r.op = "register"
                          /\ \/ r.pc = "find_one" /\ ~r.done
                             \/ r.pc = "find_one" /\ r.done /\ r.res = <<>>
                             \/ r.pc = "insert_one" /\ ~r.done })

\* the request arrives: register calls db.users.find_one and is suspended
\* in the await
Register(user) ==
    /\ InFlight < MaxInFlight
    /\ \/ Len(users) + RegistersBeforeInsert < MaxUsers
       \/ FindUserByEmail(user.email) # <<>>
    /\ pending' = Put(pending, InFlightRequest("register", "find_one", NoHeader, user))
    /\ UNCHANGED <<users, videos, issued, uploaded, now, uuids, last>>

\* RegisterFindOne finding no document, whatever is stored
RegisterFindOneFindsNone(r) ==
    /\ Waiting(r, "register", "find_one")
    /\ pending' = Move(pending, r, Executed(r, <<>>))
    /\ UNCHANGED <<users, videos, issued, uploaded, now, uuids, last>>

\* the store executes db.users.find_one({"email": user.email})
RegisterFindOne(r) ==
    /\ Waiting(r, "register", "find_one")
    /\ pending' = Move(pending, r, Executed(r, FindUserByEmail(r.arg.email)))
    /\ UNCHANGED <<users, videos, issued, uploaded, now, uuids, last>>

\* register resumed with a document: if existing_user: raise HTTPException
RegisterRaise(r) ==
    /\ Resumable(r, "register", "find_one")
    /\ r.res # <<>>
    /\ last' = Request("register", NoHeader, r.arg, EmailAlreadyRegistered)
    /\ pending' = Take(pending, r)
    /\ UNCHANGED <<users, videos, issued, uploaded, now, uuids>>

\* User(email, phone, hashed_password) as stored by insert_one
UserDocument(user, n, salt, t) ==
    [_id |-> ObjectId(n),
     id |-> Uuid4(n),
     email |-> user.email,
     phone |-> user.phone,
     hashed_password |-> get_password_hash(user.password, salt),
     created_at |-> t]

\* register resumed with None: the password is hashed and the User object
\* built, with its id and its created_at read from the clock now;
\* db.users.insert_one is called and the coroutine suspended in the await.
RegisterBuild(r) ==
    /\ Resumable(r, "register", "find_one")
    /\ r.res = <<>>
    /\ pending' = Move(pending, r,
                       [Await(r, "insert_one") EXCEPT
                           !.doc = UserDocument(r.arg, uuids, FreshSalt(uuids + 1), now)])
    /\ uuids' = uuids + 1
    /\ UNCHANGED <<users, videos, issued, uploaded, now, last>>

\* RegisterInsertOne on a collection with a unique index on email: a document
\* whose email is stored is not inserted
RegisterInsertOneUnlessStored(r) ==
    /\ Waiting(r, "register", "insert_one")
    /\ users' = IF FindUserByEmail(r.arg.email) # <<>> THEN users ELSE Append(users, r.doc)
    /\ pending' = Move(pending, r, Executed(r, <<[inserted_id |-> r.doc._id]>>))
    /\ UNCHANGED <<videos, issued, uploaded, now, uuids, last>>

\* the store executes db.users.insert_one(user_obj.dict())
RegisterInsertOne(r) ==
    /\ Waiting(r, "register", "insert_one")
    /\ users' = Append(users, r.doc)
    /\ pending' = Move(pending, r, Executed(r, <<[inserted_id |-> r.doc._id]>>))
    /\ UNCHANGED <<videos, issued, uploaded, now, uuids, last>>

\* register resumed after the insert: the token is created, its expiry
\* counted from the clock now, and returned.
RegisterReturn(r) ==
    /\ Resumable(r, "register", "insert_one")
    /\ LET access_token == create_access_token([sub |-> r.arg.email],
                                               timedelta(ACCESS_TOKEN_EXPIRE_MINUTES), now)
       IN /\ issued' = Keep(access_token, r.doc.id, "register")
          /\ last' = Request("register", NoHeader, r.arg, TokenResponse(access_token))
    /\ pending' = Take(pending, r)
    /\ UNCHANGED <<users, videos, uploaded, now, uuids>>

----------------------------------------------------------------------------
\* POST /api/login

IncorrectEmailOrPassword ==
    HTTPException(401, "Incorrect email or password", BearerChallenge)

\* the request arrives: login calls db.users.find_one and is suspended in
\* the await
Login(user) ==
    /\ InFlight < MaxInFlight
    /\ pending' = Put(pending, InFlightRequest("login", "find_one", NoHeader, user))
    /\ UNCHANGED <<users, videos, issued, uploaded, now, uuids, last>>

\* LoginFindOne writing the time of the login into the document it finds
\* (find_one_and_update in place of find_one)
LoginFindOneStampsUser(r) ==
    /\ Waiting(r, "login", "find_one")
    /\ pending' = Move(pending, r, Executed(r, FindUserByEmail(r.arg.email)))
    /\ users' = IF FindUserByEmail(r.arg.email) = <<>> THEN users
                ELSE [users EXCEPT ![SetMin(Matching(users, [email |-> r.arg.email]))]
                                        .created_at = now + 1]
    /\ UNCHANGED <<videos, issued, uploaded, now, uuids, last>>

\* the store executes db.users.find_one({"email": user.email})
LoginFindOne(r) ==
    /\ Waiting(r, "login", "find_one")
    /\ pending' = Move(pending, r, Executed(r, FindUserByEmail(r.arg.email)))
    /\ UNCHANGED <<users, videos, issued, uploaded, now, uuids, last>>

\* not db_user or not verify_password(user.password, db_user["hashed_password"])
LoginFails(user, db_user) ==
    \/ db_user = <<>>
    \/ ~verify_password(user.password, db_user[1].hashed_password)

\* LoginReturn answering an unknown email differently from a wrong password
LoginReturnRevealsUnknownEmail(r) ==
    /\ Resumable(r, "login", "find_one")
    /\ IF r.res = <<>>
       THEN /\ last' = Request("login", NoHeader, r.arg,
                               HTTPException(404, "User not found", NoHeaders))
            /\ UNCHANGED issued
       ELSE IF LoginFails(r.arg, r.res)
       THEN /\ last' = Request("login", NoHeader, r.arg, IncorrectEmailOrPassword)
            /\ UNCHANGED issued
       ELSE LET access_token == create_access_token([sub |-> r.arg.email],
                                                    timedelta(ACCESS_TOKEN_EXPIRE_MINUTES), now)
            IN /\ issued' = Keep(access_token, r.res[1].id, "login")
               /\ last' = Request("login", NoHeader, r.arg, TokenResponse(access_token))
    /\ pending' = Take(pending, r)
    /\ UNCHANGED <<users, videos, uploaded, now, uuids>>

\* login resumed with db_user: it raises the 401, or creates the token, its
\* expiry counted from the clock now, and returns it
LoginReturn(r) ==
    /\ Resumable(r, "login", "find_one")
    /\ IF LoginFails(r.arg, r.res)
       THEN /\ last' = Request("login", NoHeader, r.arg, IncorrectEmailOrPassword)
            /\ UNCHANGED issued
       ELSE LET access_token == create_access_token([sub |-> r.arg.email],
                                                    timedelta(ACCESS_TOKEN_EXPIRE_MINUTES), now)
            IN /\ issued' = Keep(access_token, r.res[1].id, "login")
               /\ last' = Request("login", NoHeader, r.arg, TokenResponse(access_token))
    /\ pending' = Take(pending, r)
    /\ UNCHANGED <<users, videos, uploaded, now, uuids>>

----------------------------------------------------------------------------
\* GET /api/me

\* UserInfo returning the stored document without its _id
UserInfoWholeDocument(current_user) ==
    [f \in DOMAIN current_user \ {"_id"} |-> current_user[f]]

UserInfo(current_user) ==
    [id |-> current_user.id,
     email |-> current_user.email,
     phone |-> current_user.phone,
     created_at |-> current_user.created_at]

\* the request arrives
Me(cred) ==
    \/ Rejected("me", cred)
    \/ Admitted("me", cred, NoArg)

\* the gate resumed with the user: get_current_user_info is called and
\* returns
MeReturn(r) ==
    /\ GateReturns(r, "me")
    /\ last' = Request("me", r.cred, r.arg, Response(200, NoHeaders, UserInfo(r.res[1])))
    /\ pending' = Take(pending, r)
    /\ UNCHANGED <<users, videos, issued, uploaded, now, uuids>>

----------------------------------------------------------------------------
\* POST /api/videos/upload

\* VideoDocument with latitude and longitude exchanged
VideoDocumentSwapsLocation(video, user_id, n, t) ==
    [_id |-> ObjectId(n),
     id |-> Uuid4(n),
     user_id |-> user_id,
     video_data |-> video.video_data,
     location_lat |-> video.location_lng,
     location_lng |-> video.location_lat,
     phone_number |-> video.phone_number,
     timestamp |-> t]

\* VideoDocument with the id default evaluated once for all records (a default
\* value in place of the default_factory)
VideoDocumentSharedDefaultId(video, user_id, n, t) ==
    [_id |-> ObjectId(n),
     id |-> Uuid4(0),
     user_id |-> user_id,
     video_data |-> video.video_data,
     location_lat |-> video.location_lat,
     location_lng |-> video.location_lng,
     phone_number |-> video.phone_number,
     timestamp |-> t]

\* VideoRecord(user_id, ...) as stored by insert_one
VideoDocument(video, user_id, n, t) ==
    [_id |-> ObjectId(n),
     id |-> Uuid4(n),
     user_id |-> user_id,
     video_data |-> video.video_data,
     location_lat |-> video.location_lat,
     location_lng |-> video.location_lng,
     phone_number |-> video.phone_number,
     timestamp |-> t]

\* uploads the clients have performed, or have under way
Uploads ==
    Cardinality(uploaded) + BagSize(pending, { r \in DOMAIN pending : r.op = "upload" })

\* the request arrives
Upload(cred, video) ==
    \/ Rejected("upload", cred)
    \/ /\ Uploads < MaxUploads
       /\ Admitted("upload", cred, video)

\* UploadBuild storing a generated id as user_id in place of current_user["id"]
UploadBuildWithGeneratedOwner(r) ==
    /\ GateReturns(r, "upload")
    /\ pending' = Move(pending, r,
                       [Await(r, "insert_one") EXCEPT
                           !.current_user = r.res[1],
                           !.doc = VideoDocument(r.arg, Uuid4(uuids + 1), uuids, now)])
    /\ uuids' = uuids + 2
    /\ UNCHANGED <<users, videos, issued, uploaded, now, last>>

\* the gate resumed with the user: upload_video is called and builds the
\* VideoRecord, with its id and its timestamp read from the clock now;
\* db.videos.insert_one is called and the coroutine suspended in the await.
UploadBuild(r) ==
    /\ GateReturns(r, "upload")
    /\ pending' = Move(pending, r,
                       [Await(r, "insert_one") EXCEPT
                           !.current_user = r.res[1],
                           !.doc = VideoDocument(r.arg, r.res[1].id, uuids, now)])
    /\ uuids' = uuids + 1
    /\ UNCHANGED <<users, videos, issued, uploaded, now, last>>

\* the store executes db.videos.insert_one(video_record.dict())
UploadInsertOne(r) ==
    /\ Waiting(r, "upload", "insert_one")
    /\ videos' = Append(videos, r.doc)
    /\ pending' = Move(pending, r, Executed(r, <<[inserted_id |-> r.doc._id]>>))
    /\ UNCHANGED <<users, issued, uploaded, now, uuids, last>>

\* upload_video resumed after the insert: it returns the id of the record
UploadReturn(r) ==
    /\ Resumable(r, "upload", "insert_one")
    /\ uploaded' = uploaded \cup {[video_id |-> r.doc.id,
                                   user_id |-> r.doc.user_id,
                                   video |-> r.arg,
                                   token |-> r.cred.token]}
    /\ last' = Request("upload", r.cred, r.arg,
                       Response(200, NoHeaders,
                                [message |-> "Video uploaded successfully",
                                 video_id |-> r.doc.id]))
    /\ pending' = Take(pending, r)
    /\ UNCHANGED <<users, videos, issued, now, uuids>>

----------------------------------------------------------------------------
\* GET /api/videos

TO_LIST_LENGTH == 1000

\* cursor.to_list(length): at most the first length documents
ToList(docs, length) ==
    SubSeq(docs, 1, IF Len(docs) < length THEN Len(docs) ELSE length)

VideoSummary(video) ==
    [id |-> video.id,
     timestamp |-> video.timestamp,
     location_lat |-> video.location_lat,
     location_lng |-> video.location_lng,
     phone_number |-> video.phone_number]

\* FindVideos without the owner filter
FindVideosUnfiltered(user_id) ==
    ToList(videos, TO_LIST_LENGTH)

\* db.videos.find({"user_id": user_id}).to_list(1000)
FindVideos(user_id) ==
    ToList(Find(videos, [user_id |-> user_id]), TO_LIST_LENGTH)

\* the list get_user_videos returns for the documents found
get_user_videos(found) ==
    [i \in 1..Len(found) |-> VideoSummary(found[i])]

\* A response body that is a JSON array, as a value that can stand where the
\* JSON objects of the other responses stand: the array is body.items, and
\* the response has no key of that name.
JsonArray(elements) == [items |-> elements]

\* the request arrives
List(cred) ==
    \/ Rejected("list", cred)
    \/ Admitted("list", cred, NoArg)

\* the gate resumed with the user: get_user_videos is called, calls
\* db.videos.find(...).to_list(1000) and is suspended in the await
ListCall(r) ==
    /\ GateReturns(r, "list")
    /\ pending' = Move(pending, r, [Await(r, "to_list") EXCEPT !.current_user = r.res[1]])
    /\ UNCHANGED <<users, videos, issued, uploaded, now, uuids, last>>

\* the store executes the query
ListToList(r) ==
    /\ Waiting(r, "list", "to_list")
    /\ pending' = Move(pending, r, Executed(r, FindVideos(r.current_user.id)))
    /\ UNCHANGED <<users, videos, issued, uploaded, now, uuids, last>>

\* get_user_videos resumed with the documents: it returns their summaries
ListReturn(r) ==
    /\ Resumable(r, "list", "to_list")
    /\ last' = Request("list", r.cred, r.arg,
                       Response(200, NoHeaders, JsonArray(get_user_videos(r.res))))
    /\ pending' = Take(pending, r)
    /\ UNCHANGED <<users, videos, issued, uploaded, now, uuids>>

----------------------------------------------------------------------------
\* GET /api/videos/{video_id}

\* FindVideo with the owner left out of the filter
FindVideoAnyOwner(video_id, user_id) ==
    FindOne(videos, [id |-> video_id])

\* db.videos.find_one({"id": video_id, "user_id": user_id})
FindVideo(video_id, user_id) ==
    FindOne(videos, [id |-> video_id, user_id |-> user_id])

\* del video["_id"]
WithoutId(doc) == [f \in DOMAIN doc \ {"_id"} |-> doc[f]]

\* the answer of get_video for the document found (<<>> for None)
get_video(video) ==
    IF video = <<>>
    THEN VideoNotFound
    ELSE Response(200, NoHeaders, WithoutId(video[1]))

VideoArg(video_id) == [video_id |-> video_id]

\* a video id that no uuid4() call returns
UnknownVideoId == 0

\* the ids of the oldest stored documents: those among the first
\* MaxStoredIds of the store that were inserted among its first
\* MaxStoredIds
StoredIds ==
    { videos[k].id : k \in 1..(IF Len(videos) < MaxStoredIds THEN Len(videos)
                               ELSE MaxStoredIds) }
        \cap 1..Uuid4(MaxStoredIds + 1)

\* the video ids a client may ask for: every id an upload returned to it
\* (deleted since or not), the ids of the oldest stored documents (as a list
\* shows them) and one that names no document
VideoIds == { up.video_id : up \in uploaded } \cup StoredIds \cup { UnknownVideoId }

\* the request arrives
GetVideo(cred, video_id) ==
    \/ Rejected("get", cred)
    \/ Admitted("get", cred, VideoArg(video_id))

\* the gate resumed with the user: get_video is called, calls
\* db.videos.find_one and is suspended in the await
GetVideoCall(r) ==
    /\ GateReturns(r, "get")
    /\ pending' = Move(pending, r, [Await(r, "find_one") EXCEPT !.current_user = r.res[1]])
    /\ UNCHANGED <<users, videos, issued, uploaded, now, uuids, last>>

\* the store executes the lookup
GetVideoFindOne(r) ==
    /\ Waiting(r, "get", "find_one")
    /\ pending' = Move(pending, r,
                       Executed(r, FindVideo(r.arg.video_id, r.current_user.id)))
    /\ UNCHANGED <<users, videos, issued, uploaded, now, uuids, last>>

\* get_video resumed with the document or None: it answers
GetVideoReturn(r) ==
    /\ Resumable(r, "get", "find_one")
    /\ last' = Request("get", r.cred, r.arg, get_video(r.res))
    /\ pending' = Take(pending, r)
    /\ UNCHANGED <<users, videos, issued, uploaded, now, uuids>>

----------------------------------------------------------------------------
\* DELETE /api/videos/{video_id}

\* delete_video without the test of result.deleted_count
delete_video_skips_count(result) ==
    Response(200, NoHeaders, [message |-> "Video deleted successfully"])

\* the answer of delete_video for the result of delete_one
delete_video(result) ==
    IF result.deleted_count = 0
    THEN VideoNotFound
    ELSE Response(200, NoHeaders, [message |-> "Video deleted successfully"])

\* DeleteVideoDocument removing every document of the owner (delete_many on
\* the owner alone)
DeleteVideoDocumentAllOwned(video_id, user_id) ==
    LET P(v) == v.user_id # user_id IN SelectSeq(videos, P)

\* DeleteVideoDocument keeping the record and clearing its payload (an
\* update_one in place of delete_one)
DeleteVideoDocumentClearsData(video_id, user_id) ==
    LET found == Matching(videos, [id |-> video_id, user_id |-> user_id])
    IN IF found = {} THEN videos
       ELSE [videos EXCEPT ![SetMin(found)].video_data = NoneVal]

\* DeleteVideoDocument with the owner left out of the filter
DeleteVideoDocumentAnyOwner(video_id, user_id) ==
    DeleteOne(videos, [id |-> video_id])

\* db.videos after delete_one({"id": video_id, "user_id": user_id})
DeleteVideoDocument(video_id, user_id) ==
    DeleteOne(videos, [id |-> video_id, user_id |-> user_id])

\* the result object of that delete_one
DeleteResult(video_id, user_id) ==
    [deleted_count |-> Len(videos) - Len(DeleteVideoDocument(video_id, user_id))]

\* the request arrives
DeleteVideo(cred, video_id) ==
    \/ Rejected("delete", cred)
    \/ Admitted("delete", cred, VideoArg(video_id))

\* the gate resumed with the user: delete_video is called, calls
\* db.videos.delete_one and is suspended in the await
DeleteVideoCall(r) ==
    /\ GateReturns(r, "delete")
    /\ pending' = Move(pending, r, [Await(r, "delete_one") EXCEPT !.current_user = r.res[1]])
    /\ UNCHANGED <<users, videos, issued, uploaded, now, uuids, last>>

\* the store executes the delete
DeleteVideoDeleteOne(r) ==
    /\ Waiting(r, "delete", "delete_one")
    /\ videos' = DeleteVideoDocument(r.arg.video_id, r.current_user.id)
    /\ pending' = Move(pending, r,
                       Executed(r, <<DeleteResult(r.arg.video_id, r.current_user.id)>>))
    /\ UNCHANGED <<users, issued, uploaded, now, uuids, last>>

\* delete_video resumed with the result: it answers
DeleteVideoReturn(r) ==
    /\ Resumable(r, "delete", "delete_one")
    /\ last' = Request("delete", r.cred, r.arg, delete_video(r.res[1]))
    /\ pending' = Take(pending, r)
    /\ UNCHANGED <<users, videos, issued, uploaded, now, uuids>>

----------------------------------------------------------------------------
\* GET /api/

Root ==
    /\ last' = Request("root", NoHeader, NoArg,
                       Response(200, NoHeaders, [message |-> "Video Recording API"]))
    /\ UNCHANGED <<users, videos, pending, issued, uploaded, now, uuids>>

----------------------------------------------------------------------------
\* Requests are handled concurrently: the steps of the requests in flight
\* and the arrivals of new ones interleave in any order.

\* a request arrives
Arrivals ==
    \/ \E user \in UserCreates : Register(user)
    \/ \E user \in UserLogins : Login(user)
    \/ \E cred \in Credentials : Me(cred)
    \/ \E cred \in Credentials, video \in VideoUploads : Upload(cred, video)
    \/ \E cred \in Credentials : List(cred)
    \/ \E cred \in Credentials, video_id \in VideoIds : GetVideo(cred, video_id)
    \/ \E cred \in Credentials, video_id \in VideoIds : DeleteVideo(cred, video_id)
    \/ Root

\* a step of the gate for a request in flight
GateSteps ==
    \/ \E r \in DOMAIN pending : GateFindOne(r)
    \/ \E r \in DOMAIN pending : GateRaise(r)

\* a step of a register request in flight
RegisterSteps ==
    \/ \E r \in DOMAIN pending : RegisterFindOne(r)
    \/ \E r \in DOMAIN pending : RegisterRaise(r)
    \/ \E r \in DOMAIN pending : RegisterBuild(r)
    \/ \E r \in DOMAIN pending : RegisterInsertOne(r)
    \/ \E r \in DOMAIN pending : RegisterReturn(r)

\* a step of a login request in flight
LoginSteps ==
    \/ \E r \in DOMAIN pending : LoginFindOne(r)
    \/ \E r \in DOMAIN pending : LoginReturn(r)

\* a step of an upload request in flight, past the gate
UploadSteps ==
    \/ \E r \in DOMAIN pending : UploadBuild(r)
    \/ \E r \in DOMAIN pending : UploadInsertOne(r)
    \/ \E r \in DOMAIN pending : UploadReturn(r)

\* a step of a list request in flight, past the gate
ListSteps ==
    \/ \E r \in DOMAIN pending : ListCall(r)
    \/ \E r \in DOMAIN pending : ListToList(r)
    \/ \E r \in DOMAIN pending : ListReturn(r)

\* a step of a get request in flight, past the gate
GetVideoSteps ==
    \/ \E r \in DOMAIN pending : GetVideoCall(r)
    \/ \E r \in DOMAIN pending : GetVideoFindOne(r)
    \/ \E r \in DOMAIN pending : GetVideoReturn(r)

\* a step of a delete request in flight, past the gate
DeleteVideoSteps ==
    \/ \E r \in DOMAIN pending : DeleteVideoCall(r)
    \/ \E r \in DOMAIN pending : DeleteVideoDeleteOne(r)
    \/ \E r \in DOMAIN pending : DeleteVideoReturn(r)

Next ==
    \/ Tick
    \/ Arrivals
    \/ GateSteps
    \/ RegisterSteps
    \/ LoginSteps
    \/ \E r \in DOMAIN pending : MeReturn(r)
    \/ UploadSteps
    \/ ListSteps
    \/ GetVideoSteps
    \/ DeleteVideoSteps

Spec == Init /\ [][Next]_vars

----------------------------------------------------------------------------
\* Scenarios: the program with clients that send fewer requests.  Each takes
\* the steps of Next, under a condition on what the clients send and when.

\* no request of this endpoint is in flight
NoneOf(op) == \A r \in DOMAIN pending : r.op # op

\* The account routes and the root, with one client that sends a request
\* when its last one is answered.  The clock advances at any time.
NextSeq ==
    \/ Tick
    \/ \E user \in UserCreates : InFlight = 0 /\ Register(user)
    \/ \E user \in UserLogins : InFlight = 0 /\ Login(user)
    \/ \E cred \in Credentials : InFlight = 0 /\ Me(cred)
    \/ InFlight = 0 /\ Root
    \/ GateSteps
    \/ RegisterSteps
    \/ LoginSteps
    \/ \E r \in DOMAIN pending : MeReturn(r)

SpecSeq == Init /\ [][NextSeq]_vars

\* The account routes with concurrent clients: a register, a login and a me
\* request overlap one another; two requests of one route do not.
NextAccounts ==
    \/ Tick
    \/ \E user \in UserCreates : NoneOf("register") /\ Register(user)
    \/ \E user \in UserLogins : NoneOf("login") /\ Login(user)
    \/ \E cred \in Tokens : NoneOf("me") /\ Me(cred)
    \/ \E r \in DOMAIN pending : GateFindOne(r)
    \/ RegisterSteps
    \/ LoginSteps
    \/ \E r \in DOMAIN pending : MeReturn(r)

SpecAccounts == Init /\ [][NextAccounts]_vars

\* Register requests that overlap one another, and the holders of the
\* tokens then logging in and asking for their user, one request at a time.
NextRace ==
    \/ Tick
    \/ \E user \in UserCreates : InFlight = RegistersInFlight /\ Register(user)
    \/ \E user \in UserLogins : InFlight = 0 /\ Login(user)
    \/ \E cred \in Tokens : InFlight = 0 /\ Me(cred)
    \/ \E r \in DOMAIN pending : GateFindOne(r)
    \/ RegisterSteps
    \/ LoginSteps
    \/ \E r \in DOMAIN pending : MeReturn(r)

SpecRace == Init /\ [][NextRace]_vars

\* Register requests for one email that overlap one another, and the
\* holders of the tokens then sending video requests, one at a time.
NextRaceVideos ==
    \/ Tick
    \/ \E user \in UserCreates :
          /\ user.email = "sarah@example.com"
          /\ InFlight = RegistersInFlight
          /\ Register(user)
    \/ \E cred \in Tokens, video \in VideoUploads : InFlight = 0 /\ Upload(cred, video)
    \/ \E cred \in Tokens : InFlight = 0 /\ List(cred)
    \/ \E cred \in Tokens, video_id \in VideoIds : InFlight = 0 /\ GetVideo(cred, video_id)
    \/ \E cred \in Tokens, video_id \in VideoIds : InFlight = 0 /\ DeleteVideo(cred, video_id)
    \/ \E r \in DOMAIN pending : GateFindOne(r)
    \/ RegisterSteps
    \/ UploadSteps
    \/ ListSteps
    \/ GetVideoSteps
    \/ DeleteVideoSteps

SpecRaceVideos == Init /\ [][NextRaceVideos]_vars

----------------------------------------------------------------------------
\* The service with a populated video store: two users registered in minute
\* 0 and hold the tokens they were given, the second then uploaded m videos
\* and the first n videos.  It is minute 30.

\* stored videos of the first user, and of the second, at the start
BulkOwn == {0, 1, 2}
BulkOther == {0, 1}

BulkUserCreates ==
    << [email |-> "sarah@example.com", password |-> "SecurePass2024!", phone |-> "+1-555-0123"],
       [email |-> "bob@example.com", password |-> "SecurePass2024!", phone |-> NoneVal] >>

BulkUsers ==
    [k \in 1..2 |-> UserDocument(BulkUserCreates[k], k - 1, FreshSalt(k), 0)]

BulkUpload(k) ==
    IF k % 2 = 1
    THEN [video_data |-> "dGVzdA==", location_lat |-> "40.7128",
          location_lng |-> "-74.0060", phone_number |-> "+1-555-0123"]
    ELSE [video_data |-> "AAAA", location_lat |-> NoneVal, location_lng |-> NoneVal,
          phone_number |-> NoneVal]

\* the store after m uploads of the second user and n of the first
BulkVideos(n, m) ==
    [k \in 1..(m + n) |->
        VideoDocument(BulkUpload(k), BulkUsers[IF k <= m THEN 2 ELSE 1].id, k + 1, 0)]

BulkToken(k) ==
    create_access_token([sub |-> BulkUsers[k].email],
                        timedelta(ACCESS_TOKEN_EXPIRE_MINUTES), 0)

\* the answer to the request answered last before the start
BulkLast(n, m) ==
    IF n + m = 0
    THEN Request("register", NoHeader, BulkUserCreates[2], TokenResponse(BulkToken(2)))
    ELSE Request("upload", Bearer(BulkToken(IF n = 0 THEN 2 ELSE 1)), BulkUpload(m + n),
                 Response(200, NoHeaders,
                          [message |-> "Video uploaded successfully",
                           video_id |-> BulkVideos(n, m)[m + n].id]))

\* the state after the registrations and the uploads, in minute 30
Populated(n, m) ==
    /\ users = BulkUsers
    /\ videos = BulkVideos(n, m)
    /\ pending = NoneInFlight
    /\ issued = { [token |-> BulkToken(k), uid |-> BulkUsers[k].id, by |-> "register"] : k \in 1..2 }
    /\ uploaded = {}
    /\ now = ACCESS_TOKEN_EXPIRE_MINUTES
    /\ uuids = 2 + m + n
    /\ last = BulkLast(n, m)

InitBulk == \E n \in BulkOwn, m \in BulkOther : Populated(n, m)

\* The holders of the two tokens list, get and delete videos concurrently.
NextDeletes ==
    \/ Tick
    \/ \E cred \in Tokens : List(cred)
    \/ \E cred \in Tokens, video_id \in VideoIds : GetVideo(cred, video_id)
    \/ \E cred \in Tokens, video_id \in VideoIds : DeleteVideo(cred, video_id)
    \/ \E r \in DOMAIN pending : GateFindOne(r)
    \/ ListSteps
    \/ GetVideoSteps
    \/ DeleteVideoSteps

SpecDeletes == InitBulk /\ [][NextDeletes]_vars

\* The holders of the two tokens upload, list and get videos concurrently.
NextUploads ==
    \/ Tick
    \/ \E cred \in Tokens, video \in VideoUploads : Upload(cred, video)
    \/ \E cred \in Tokens : List(cred)
    \/ \E cred \in Tokens, video_id \in VideoIds : GetVideo(cred, video_id)
    \/ \E r \in DOMAIN pending : GateFindOne(r)
    \/ UploadSteps
    \/ ListSteps
    \/ GetVideoSteps

SpecUploads == InitBulk /\ [][NextUploads]_vars

\* The holders of the two tokens upload, get and delete videos: an upload,
\* a get and a delete overlap one another; two requests of one route do not.
NextRoundTrip ==
    \/ Tick
    \/ \E cred \in Tokens, video \in VideoUploads : NoneOf("upload") /\ Upload(cred, video)
    \/ \E cred \in Tokens, video_id \in VideoIds : NoneOf("get") /\ GetVideo(cred, video_id)
    \/ \E cred \in Tokens, video_id \in VideoIds :
          NoneOf("delete") /\ DeleteVideo(cred, video_id)
    \/ \E r \in DOMAIN pending : GateFindOne(r)
    \/ UploadSteps
    \/ GetVideoSteps
    \/ DeleteVideoSteps

SpecRoundTrip == InitBulk /\ [][NextRoundTrip]_vars

\* The store with as many videos of the first user as one list returns, or
\* one less, and one of the second; the two upload and list, one request at
\* a time.
InitThousand == \E n \in {TO_LIST_LENGTH - 1, TO_LIST_LENGTH} : Populated(n, 1)

NextThousand ==
    \/ Tick
    \/ \E cred \in Tokens, video \in VideoUploads : InFlight = 0 /\ Upload(cred, video)
    \/ \E cred \in Tokens : InFlight = 0 /\ List(cred)
    \/ \E r \in DOMAIN pending : GateFindOne(r)
    \/ UploadSteps
    \/ ListSteps

SpecThousand == InitThousand /\ [][NextThousand]_vars

\* The service after one registration and one upload: the first user
\* registered in minute 0 and uploaded a video.  It is minute 30, and one
\* client sends requests to every route, with any credentials, each when
\* the last one is answered.
InitClient ==
    /\ users = <<BulkUsers[1]>>
    /\ videos = <<VideoDocument(BulkUpload(1), BulkUsers[1].id, 1, 0)>>
    /\ pending = NoneInFlight
    /\ issued = { [token |-> BulkToken(1), uid |-> BulkUsers[1].id, by |-> "register"] }
    /\ uploaded = {}
    /\ now = ACCESS_TOKEN_EXPIRE_MINUTES
    /\ uuids = 2
    /\ last = Request("upload", Bearer(BulkToken(1)), BulkUpload(1),
                      Response(200, NoHeaders,
                               [message |-> "Video uploaded successfully",
                                video_id |-> Uuid4(1)]))

NextClient ==
    \/ Tick
    \/ InFlight = 0 /\ Arrivals
    \/ GateSteps
    \/ RegisterSteps
    \/ LoginSteps
    \/ \E r \in DOMAIN pending : MeReturn(r)
    \/ UploadSteps
    \/ ListSteps
    \/ GetVideoSteps
    \/ DeleteVideoSteps

SpecClient == InitClient /\ [][NextClient]_vars

----------------------------------------------------------------------------
\* create_access_token on its own: the function called, at any minute, with
\* any data and any expires_delta (None included).

\* the last minute at which the function is called
MaxTokenClock == 5

\* the data dictionaries and the Optional[timedelta] values it is called with
TokenData == { [sub |-> email] : email \in Emails }
TokenDeltas ==
    {NoDelta} \cup { timedelta(m) : m \in {0, 1, FALLBACK_EXPIRE_MINUTES,
                                            ACCESS_TOKEN_EXPIRE_MINUTES} }

TokenArg(data, expires_delta) == [data |-> data, expires_delta |-> expires_delta]

\* one minute passes
TickMinute ==
    /\ now < MaxTokenClock
    /\ now' = now + 1
    /\ UNCHANGED <<users, videos, pending, issued, uploaded, uuids, last>>

\* a call create_access_token(data, expires_delta) and the token it returns
CreateAccessToken(data, expires_delta) ==
    /\ last' = Request("create_access_token", NoHeader, TokenArg(data, expires_delta),
                       create_access_token(data, expires_delta, now))
    /\ UNCHANGED <<users, videos, pending, issued, uploaded, now, uuids>>

NextToken ==
    \/ TickMinute
    \/ \E data \in TokenData, expires_delta \in TokenDeltas :
           CreateAccessToken(data, expires_delta)

SpecToken == Init /\ [][NextToken]_vars

----------------------------------------------------------------------------
\* Vocabulary of the properties.

Users == { users[i] : i \in 1..Len(users) }
Videos == { videos[i] : i \in 1..Len(videos) }
VideoIdsStored == { v.id : v \in Videos }

\* the stores are left as they were
StoresUnchanged == users' = users /\ videos' = videos

\* the user document whose email is the subject of the credentials
Caller(cred) == FindUserByEmail(cred.token.claims.sub)[1]

\* the credentials are a token some register or login call returned
IsIssued(cred) == \E i \in issued : cred = Bearer(i.token)

\* this step answers the request r in flight: last' is the request with its
\* answer
Answered(r) == r \in DOMAIN pending /\ pending' = Take(pending, r)

\* this step takes up the request r: it arrives and is suspended in its
\* first await
Admits(r) == r \in DOMAIN pending' /\ pending' = Put(pending, r)

\* this step answers a request in the step it arrives in
AnsweredOnArrival == last' # last /\ pending' = pending

\* this step takes the request r in flight on to s
Proceeds(r, s) ==
    /\ r \in DOMAIN pending /\ s \in DOMAIN pending'
    /\ r # s
    /\ pending' = Move(pending, r, s)

\* in this step the store executes the call that r awaits; s.res is its
\* result
StoreExecutes(r, s) == Proceeds(r, s) /\ ~r.done /\ s.done /\ s.pc = r.pc

\* in this step the store executes the call the handler of r made (not the
\* lookup of the gate)
HandlerCallExecutes(r, s, op) ==
    StoreExecutes(r, s) /\ r.op = op /\ r.pc # "get_current_user"

\* this step answers r from its handler, resumed with the result r.res
HandlerAnswers(r, op) ==
    Answered(r) /\ r.op = op /\ r.pc # "get_current_user"

----------------------------------------------------------------------------
\* the store call of the get or delete request r matched no document
MatchedNothing(r) ==
    IF r.op = "get" THEN r.res = <<>> ELSE r.res[1].deleted_count = 0

\* C1: cross-user isolation.  When a user B with a valid token asks get_video
\* or delete_video for the id of a video owned by another user A, the store
\* call matches nothing, as it does for an id that no video has, the video
\* store is left as it was (A's record stays in it), and the answer is 404
\* "Video not found".
C1_CrossUserIsolation ==
    [][\A r \in DOMAIN pending :
         /\ r.op \in {"get", "delete"}
              => \A s \in DOMAIN pending' :
                    ( /\ HandlerCallExecutes(r, s, r.op)
                      /\ \E v \in Videos : /\ v.id = r.arg.video_id
                                           /\ v.user_id # r.current_user.id )
                        => ( /\ MatchedNothing(s)
                             /\ s.res = IF r.op = "get"
                                        THEN FindVideo(UnknownVideoId, r.current_user.id)
                                        ELSE <<DeleteResult(UnknownVideoId,
                                                            r.current_user.id)>>
                             /\ videos' = videos )
         /\ r.op \in {"get", "delete"}
              => ( (HandlerAnswers(r, r.op) /\ MatchedNothing(r))
                      => ( /\ last'.resp = VideoNotFound
                           /\ last'.cred = r.cred /\ last'.arg = r.arg
                           /\ videos' = videos ) )]_vars

\* B asked to delete A's video with a token of B's own, got 404, and A's
\* record is still stored.
C1_Witness ==
    /\ last.op = "delete"
    /\ last.resp = VideoNotFound
    /\ IsIssued(last.cred)
    /\ \E v \in Videos : /\ v.id = last.arg.video_id
                         /\ v.user_id # Caller(last.cred).id
                         /\ \E u \in Users : u.id = v.user_id /\ u.email # Caller(last.cred).email

----------------------------------------------------------------------------
\* C2: the authentication gate.  On every protected endpoint a request whose
\* bearer token is absent, malformed, badly signed, without subject or
\* expired is answered when it arrives, a request whose token names an email
\* without user record when its lookup has found nothing; all get the same
\* 401 answer (credentials_exception), the handler is not called and neither
\* store changes.
C2_AuthenticationGate ==
    [][ /\ (AnsweredOnArrival /\ last'.op \in ProtectedOps)
           => ( /\ last'.resp = credentials_exception
                /\ StoresUnchanged )
        /\ \A r \in DOMAIN pending' :
             (Admits(r) /\ r.op \in ProtectedOps)
                => ~( \/ r.cred.header = "absent"
                      \/ r.cred.token.fmt # "jwt"
                      \/ r.cred.token.sig.key # SECRET_KEY
                      \/ "sub" \notin DOMAIN r.cred.token.claims
                      \/ r.cred.token.claims.exp < now )
        /\ \A r \in DOMAIN pending :
             (r.op \in ProtectedOps /\ r.pc = "get_current_user")
                => /\ \A s \in DOMAIN pending' :
                        /\ ( /\ StoreExecutes(r, s)
                             /\ \A u \in Users : u.email # r.cred.token.claims.sub )
                              => (s.res = <<>> /\ StoresUnchanged)
                        /\ (Proceeds(r, s) /\ r.done) => r.res # <<>>
                   /\ (Answered(r) /\ r.res = <<>>)
                        => ( /\ last'.resp = credentials_exception
                             /\ StoresUnchanged ) ]_vars

----------------------------------------------------------------------------
\* C3: a token returned by register or login, presented to /me, is taken up
\* unless it has expired, and is then answered 200 with the email and the id
\* of the user record of the call that returned it; presented after its
\* expiry it is turned away with credentials_exception.
C3_TokenResolvesToItsUser ==
    [][\A i \in issued :
         /\ ( /\ AnsweredOnArrival
              /\ last'.op = "me"
              /\ last'.cred = Bearer(i.token) )
            => ( /\ i.token.claims.exp < now
                 /\ last'.resp = credentials_exception )
         /\ \A r \in DOMAIN pending' :
              (Admits(r) /\ r.op = "me" /\ r.cred = Bearer(i.token))
                  => ~(i.token.claims.exp < now)
         /\ \A r \in DOMAIN pending :
              (Answered(r) /\ r.op = "me" /\ r.cred = Bearer(i.token))
                  => ( /\ last'.resp.status = 200
                       /\ last'.resp.body.email = i.token.claims.sub
                       /\ last'.resp.body.id = i.uid )]_vars

----------------------------------------------------------------------------
\* C4: with register requests handled one at a time, the lookup of a
\* register call for an email that already has a user record finds the
\* record, the call is answered 400 "Email already registered", no token is
\* handed out and no record inserted, and the credential store never holds
\* two user records with the same email.
C4_DuplicateEmailRejected ==
    /\ [](\A i, j \in 1..Len(users) : users[i].email = users[j].email => i = j)
    /\ [][\A r \in DOMAIN pending :
            (r.op = "register" /\ r.pc = "find_one")
               => /\ \A s \in DOMAIN pending' :
                       /\ ( /\ StoreExecutes(r, s)
                            /\ \E u \in Users : u.email = r.arg.email )
                             => (s.res # <<>> /\ StoresUnchanged)
                       /\ (Proceeds(r, s) /\ r.done) => r.res = <<>>
                  /\ (Answered(r) /\ r.res # <<>>)
                       => ( /\ last'.resp = EmailAlreadyRegistered
                            /\ last'.arg = r.arg
                            /\ issued' = issued
                            /\ StoresUnchanged )]_vars

\* a register call for a stored email was just answered 400
C4_Witness ==
    /\ last.op = "register"
    /\ last.resp = EmailAlreadyRegistered
    /\ \E u \in Users : u.email = last.arg.email
    /\ Len(users) = MaxUsers

----------------------------------------------------------------------------
\* C5: the existence check and the insert of register are two store calls.
\* The check only reads; the insert of a request that passed its check adds
\* its record whatever was inserted meanwhile, and the request is answered
\* 200 with a token, so two interleaved requests for one email leave two
\* records with that email.
C5_CheckThenInsertNotAtomic ==
    [][\A r \in DOMAIN pending :
         r.op = "register"
            => /\ \A s \in DOMAIN pending' :
                    /\ (StoreExecutes(r, s) /\ r.pc = "find_one") => StoresUnchanged
                    /\ (StoreExecutes(r, s) /\ r.pc = "insert_one")
                          => ( /\ users' = Append(users, r.doc)
                               /\ r.doc.email = r.arg.email )
               /\ (Answered(r) /\ r.pc = "insert_one")
                    => ( /\ last'.op = "register"
                         /\ last'.arg = r.arg
                         /\ last'.resp.status = 200
                         /\ last'.resp.body.token_type = "bearer" )]_vars

\* two records with one email are stored, the second register call was just
\* answered 200 with a token, and both callers hold their tokens
C5_Witness ==
    /\ \E i, j \in 1..Len(users) : i # j /\ users[i].email = users[j].email
    /\ last.op = "register"
    /\ last.resp.status = 200
    /\ \E a, b \in issued : /\ a.uid # b.uid
                            /\ a.by = "register" /\ b.by = "register"
                            /\ a.token.claims.sub = b.token.claims.sub
                            /\ \E u \in Users : u.id = a.uid
                            /\ \E u \in Users : u.id = b.uid

----------------------------------------------------------------------------
\* C6: a login with a registered email and a password the record of that
\* email was not hashed from, and a login with an email without user record,
\* get one and the same answer (401, "Incorrect email or password",
\* WWW-Authenticate: Bearer); no token is handed out and no store changes.
C6_LoginFailuresIdentical ==
    [][\A r \in DOMAIN pending :
         r.op = "login"
            => /\ \A s \in DOMAIN pending' :
                    StoreExecutes(r, s)
                       => ( /\ StoresUnchanged
                            /\ (\A u \in Users : u.email # r.arg.email) <=> s.res = <<>> )
               /\ ( /\ Answered(r)
                    /\ \/ r.res = <<>>
                       \/ ~verify_password(r.arg.password, r.res[1].hashed_password) )
                    => ( /\ last'.resp = IncorrectEmailOrPassword
                         /\ last'.resp.status = 401
                         /\ last'.resp.body.detail = "Incorrect email or password"
                         /\ last'.resp.headers = BearerChallenge
                         /\ last'.arg = r.arg
                         /\ issued' = issued
                         /\ StoresUnchanged )]_vars

\* a login with a wrong password for a registered email was just answered,
\* while another email has no record yet
C6_Witness ==
    /\ last.op = "login"
    /\ last.resp = IncorrectEmailOrPassword
    /\ \E u \in Users : u.email = last.arg.email
    /\ \A u \in Users : u.email = last.arg.email
                            => ~verify_password(last.arg.password, u.hashed_password)
    /\ \E e \in Emails : \A u \in Users : u.email # e

----------------------------------------------------------------------------
\* C7: a login with the email and password some successful register call was
\* given (a call answered 200 with a token the client holds, for the record
\* it stored) finds a record that the password verifies against, and is
\* answered 200 with a bearer token whose subject is that email.
C7_RegisteredLoginSucceeds ==
    [][\A r \in DOMAIN pending :
         r.op = "login"
            => /\ \A s \in DOMAIN pending' :
                    ( /\ StoreExecutes(r, s)
                      /\ \E i \in issued, u \in Users :
                            /\ i.by = "register"
                            /\ i.uid = u.id
                            /\ u.email = r.arg.email
                            /\ verify_password(r.arg.password, u.hashed_password) )
                       => ~LoginFails(r.arg, s.res)
               /\ (Answered(r) /\ ~LoginFails(r.arg, r.res))
                    => ( /\ last'.resp.status = 200
                         /\ last'.resp.body.token_type = "bearer"
                         /\ last'.resp.body.access_token.claims.sub = r.arg.email )]_vars

----------------------------------------------------------------------------
\* the documents of the user in the store, in store order
OwnedBy(user_id) == Find(videos, [user_id |-> user_id])

\* the answer to the list request r is one summary for each document its
\* query returned, in that order and without the payload
AnswersSummaries(r) ==
    HandlerAnswers(r, "list")
       => ( /\ last'.resp.status = 200
            /\ last'.cred = r.cred
            /\ Len(last'.resp.body.items) = Len(r.res)
            /\ \A k \in 1..Len(r.res) :
                  /\ last'.resp.body.items[k].id = r.res[k].id
                  /\ "video_data" \notin DOMAIN last'.resp.body.items[k] )

\* C8 as stated: get_user_videos returns one summary, without the payload,
\* for each of the N records the user owns: exactly N.
C8_ListReturnsAllOwned ==
    [][\A r \in DOMAIN pending :
         /\ \A s \in DOMAIN pending' :
              HandlerCallExecutes(r, s, "list") => s.res = OwnedBy(r.current_user.id)
         /\ AnswersSummaries(r) ]_vars

\* C8 as amended: get_user_videos returns one summary, without the payload,
\* for each of the first min(N, 1000) of the N records the user owns, in
\* store order, and for no other record.
C8_ListReturnsFirstThousandOwned ==
    [][\A r \in DOMAIN pending :
         /\ \A s \in DOMAIN pending' :
              HandlerCallExecutes(r, s, "list")
                 => LET owned == OwnedBy(r.current_user.id)
                    IN /\ Len(s.res) = IF Len(owned) < 1000 THEN Len(owned) ELSE 1000
                       /\ s.res = SubSeq(owned, 1, Len(s.res))
         /\ AnswersSummaries(r) ]_vars

\* a user who owns 1001 records was just answered a list of 1000
C8_Witness ==
    /\ last.op = "list"
    /\ last.resp.status = 200
    /\ Len(last.resp.body.items) = 1000
    /\ Len(OwnedBy(Caller(last.cred).id)) = 1001

----------------------------------------------------------------------------
\* C9: upload/get round trip.  While a video a user uploaded is stored (it
\* was not deleted since), whatever other requests were handled in between,
\* get_video by that user for the id the upload returned finds the record
\* with the id, the user_id and the video_data, location_lat, location_lng
\* and phone_number that were uploaded, and answers 200 with them.
C9_UploadGetRoundTrip ==
    [][\A r \in DOMAIN pending :
         r.op = "get"
            => /\ \A s \in DOMAIN pending', up \in uploaded :
                    ( /\ HandlerCallExecutes(r, s, "get")
                      /\ r.arg.video_id = up.video_id
                      /\ r.current_user.id = up.user_id
                      /\ up.video_id \in VideoIdsStored )
                       => ( /\ s.res # <<>>
                            /\ s.res[1].id = up.video_id
                            /\ s.res[1].user_id = up.user_id
                            /\ s.res[1].video_data = up.video.video_data
                            /\ s.res[1].location_lat = up.video.location_lat
                            /\ s.res[1].location_lng = up.video.location_lng
                            /\ s.res[1].phone_number = up.video.phone_number )
               /\ (HandlerAnswers(r, "get") /\ r.res # <<>>)
                    => ( /\ last'.resp.status = 200
                         /\ last'.cred = r.cred /\ last'.arg = r.arg
                         /\ "_id" \notin DOMAIN last'.resp.body
                         /\ last'.resp.body.id = r.res[1].id
                         /\ last'.resp.body.user_id = r.res[1].user_id
                         /\ last'.resp.body.video_data = r.res[1].video_data
                         /\ last'.resp.body.location_lat = r.res[1].location_lat
                         /\ last'.resp.body.location_lng = r.res[1].location_lng
                         /\ last'.resp.body.phone_number = r.res[1].phone_number )]_vars

\* the uploader was just answered the uploaded video, with the token the
\* upload was made with, the record being stored
C9_Witness ==
    /\ last.op = "get"
    /\ last.resp.status = 200
    /\ \E up \in uploaded :
          /\ last.arg = VideoArg(up.video_id)
          /\ last.cred = Bearer(up.token)
          /\ up.video_id \in VideoIdsStored
          /\ last.resp.body.id = up.video_id
          /\ last.resp.body.user_id = up.user_id
          /\ last.resp.body.video_data = up.video.video_data
          /\ last.resp.body.location_lat = up.video.location_lat
          /\ last.resp.body.location_lng = up.video.location_lng
          /\ last.resp.body.phone_number = up.video.phone_number

----------------------------------------------------------------------------
\* a delete_video request for this id has succeeded: its delete_one removed
\* the record (and the request is to be answered), or it was just answered
\* 200
DeleteSucceeded(video_id) ==
    \/ \E r \in DOMAIN pending : /\ r.op = "delete"
                                  /\ r.pc = "delete_one" /\ r.done
                                  /\ r.res[1].deleted_count = 1
                                  /\ r.arg.video_id = video_id
    \/ /\ last.op = "delete"
       /\ last.resp.status = 200
       /\ last.arg.video_id = video_id

\* C10: after delete_video succeeded for the owner of a video, the id is in
\* no later state of the video store; a query made while it is not stored
\* does not return it (get_video finds nothing and answers 404, the list
\* holds no summary of it), and the delete left every other record as it
\* was.
C10_DeletedStaysDeleted ==
    /\ \A video_id \in 1..Uuid4(MaxStoredIds + 1) :
          [](DeleteSucceeded(video_id) => [](video_id \notin VideoIdsStored))
    /\ [][\A r \in DOMAIN pending :
            /\ \A s \in DOMAIN pending' :
                 /\ ( /\ HandlerCallExecutes(r, s, "get")
                      /\ r.arg.video_id \notin VideoIdsStored )
                       => s.res = <<>>
                 /\ HandlerCallExecutes(r, s, "list")
                       => \A k \in 1..Len(s.res) : s.res[k].id \in VideoIdsStored
                 /\ ( /\ HandlerCallExecutes(r, s, "delete")
                      /\ s.res[1].deleted_count = 1 )
                       => ( /\ LET P(v) == v.id # r.arg.video_id
                               IN videos' = SelectSeq(videos, P)
                            /\ Len(videos') = Len(videos) - 1 )
            /\ (HandlerAnswers(r, "get") /\ r.res = <<>>)
                 => last'.resp = VideoNotFound
            /\ HandlerAnswers(r, "list")
                 => \A k \in 1..Len(last'.resp.body.items) :
                       \E j \in 1..Len(r.res) : last'.resp.body.items[k].id = r.res[j].id
            /\ (HandlerAnswers(r, "delete") /\ r.res[1].deleted_count = 1)
                 => last'.resp.status = 200 ]_vars

\* the owner, who has two videos, deleted one and then asked for it: the
\* answer was 404, and the other video is still stored
C10_Witness ==
    /\ last.op = "get"
    /\ last.resp = VideoNotFound
    /\ last.arg.video_id \in 1..Uuid4(MaxStoredIds + 1)
    /\ last.arg.video_id \notin VideoIdsStored
    /\ \E v \in Videos : v.user_id = Caller(last.cred).id

----------------------------------------------------------------------------
\* C11: delete_video for a video id that no stored video has, or that only
\* a video of another user has, removes nothing: delete_one reports no
\* document deleted, both stores stay as they were, and the answer is 404
\* "Video not found".
C11_DeleteNotFoundChangesNothing ==
    [][\A r \in DOMAIN pending :
         r.op = "delete"
            => /\ \A s \in DOMAIN pending' :
                    ( /\ HandlerCallExecutes(r, s, "delete")
                      /\ \A v \in Videos : ~( /\ v.id = r.arg.video_id
                                              /\ v.user_id = r.current_user.id ) )
                       => ( /\ s.res = <<[deleted_count |-> 0]>>
                            /\ StoresUnchanged )
               /\ (HandlerAnswers(r, "delete") /\ r.res[1].deleted_count = 0)
                    => ( /\ last'.resp = VideoNotFound
                         /\ last'.resp.status = 404
                         /\ last'.arg = r.arg
                         /\ StoresUnchanged )]_vars

\* a user with a valid token asked to delete a video id that no stored
\* video has, while a video is stored, got 404, and the video is still there
C11_Witness ==
    /\ last.op = "delete"
    /\ last.resp = VideoNotFound
    /\ IsIssued(last.cred)
    /\ last.arg # NoArg
    /\ Videos # {}
    /\ \A v \in Videos : v.id # last.arg.video_id

----------------------------------------------------------------------------
\* a request on a route outside ungated is answered by its handler only if
\* it carries a bearer token that register or login returned and that had
\* not expired when the request arrived; any other is turned away by the
\* gate
GatedOutside(ungated) ==
    /\ (AnsweredOnArrival /\ last'.op \notin ungated)
          => last'.resp \in GateRejections(last'.cred)
    /\ \A r \in DOMAIN pending' :
          (Admits(r) /\ r.op \notin ungated)
              => ( /\ r.pc = "get_current_user"
                   /\ r.cred.header = "bearer"
                   /\ ~(r.cred.token.claims.exp < now) )
    /\ \A r \in DOMAIN pending :
          (r.op \notin ungated /\ r.pc = "get_current_user")
              => /\ \A s \in DOMAIN pending' :
                      (Proceeds(r, s) /\ r.done) => IsIssued(r.cred)
                 /\ Answered(r)
                      => ( /\ last'.op = r.op /\ last'.cred = r.cred
                           /\ \/ IsIssued(r.cred)
                              \/ last'.resp = credentials_exception )

\* C12 as stated: register and login are the only routes that answer without
\* the gate; every other route turns away a request without a valid bearer
\* token.
C12_OnlyRegisterAndLoginUngated ==
    [][GatedOutside({"register", "login"})]_vars

\* C12 as amended: register, login and the root route GET /api/ are the only
\* routes that answer without the gate; me, upload, list, get and delete turn
\* away every request without a valid bearer token.
C12_OnlyRegisterLoginRootUngated ==
    [][GatedOutside({"register", "login", "root"})]_vars

\* with a user registered, a protected route turned away credentials that no
\* register or login call returned
C12_Witness ==
    /\ users # <<>>
    /\ last.op \in ProtectedOps
    /\ ~IsIssued(last.cred)
    /\ last.cred.header = "bearer"
    /\ last.cred.token.fmt = "jwt"
    /\ last.resp = credentials_exception

----------------------------------------------------------------------------
\* the answer given in this step hands out a token whose subject is email and
\* whose expiry lies ACCESS_TOKEN_EXPIRE_MINUTES after the time of the step
HandsOutToken(email) ==
    /\ last'.resp.status = 200
    /\ last'.resp.body.token_type = "bearer"
    /\ last'.resp.body.access_token.claims =
           [sub |-> email, exp |-> now + ACCESS_TOKEN_EXPIRE_MINUTES]

\* C13: every token that register or login issues carries the email of the
\* request as subject and an expiry exactly 30 minutes after its issue time,
\* the time at which the token is created.
C13_TokenExpiryAndSubject ==
    [][\A r \in DOMAIN pending :
         /\ (Answered(r) /\ r.op = "register" /\ r.pc = "insert_one")
              => (last'.arg = r.arg /\ HandsOutToken(r.arg.email))
         /\ (Answered(r) /\ r.op = "login" /\ ~LoginFails(r.arg, r.res))
              => (last'.arg = r.arg /\ HandsOutToken(r.arg.email)) ]_vars

\* a register call whose insert the clock overtook returned a token for its
\* email that expires 30 minutes after the token was created, later than
\* 30 minutes after the created_at of the record
C13_Witness ==
    /\ last.op = "register"
    /\ last.resp.status = 200
    /\ last.resp.body.access_token.claims.sub = last.arg.email
    /\ last.resp.body.access_token.claims.exp = now + ACCESS_TOKEN_EXPIRE_MINUTES
    /\ \E i \in issued, u \in Users :
           /\ i.by = "register"
           /\ i.token = last.resp.body.access_token
           /\ u.id = i.uid
           /\ u.email = last.arg.email
           /\ u.created_at + ACCESS_TOKEN_EXPIRE_MINUTES < i.token.claims.exp

----------------------------------------------------------------------------
\* C14: upload_video by an authenticated user succeeds: its insert appends
\* exactly one record, with an id no stored record has and the id of the
\* caller as user_id, and leaves every stored record as it was; no other
\* step of the request changes a store; the answer is 200 with the id of
\* the record.
C14_UploadInsertsOneFreshRecord ==
    [][\A r \in DOMAIN pending :
         r.op = "upload"
            => /\ \A s \in DOMAIN pending' :
                    /\ HandlerCallExecutes(r, s, "upload")
                          => ( /\ videos' = Append(videos, r.doc)
                               /\ users' = users
                               /\ \A v \in Videos : v.id # r.doc.id
                               /\ r.doc.user_id = Caller(r.cred).id
                               /\ r.doc.video_data = r.arg.video_data )
                    /\ (Proceeds(r, s) /\ ~HandlerCallExecutes(r, s, "upload"))
                          => StoresUnchanged
               /\ Answered(r)
                    => ( /\ StoresUnchanged
                         /\ last'.op = "upload" /\ last'.cred = r.cred
                         /\ last'.resp.status = 200
                         /\ last'.resp.body.video_id = r.doc.id )]_vars

\* an upload was just answered 200 with the id of the last record of the
\* store, which belongs to the caller, next to an earlier record
C14_Witness ==
    /\ last.op = "upload"
    /\ last.resp.status = 200
    /\ Len(videos) > 1
    /\ videos[Len(videos)].id = last.resp.body.video_id
    /\ videos[Len(videos)].user_id = Caller(last.cred).id
    /\ \A k \in 1..(Len(videos) - 1) : videos[k].id # last.resp.body.video_id
    /\ \E up \in uploaded : up.video_id = last.resp.body.video_id /\ up.video = last.arg

----------------------------------------------------------------------------
\* C15: no revocation.  Whatever has happened since it was issued (later
\* logins, later tokens for the same user), a token that has not expired
\* passes the gate: it is turned away on arrival only when expired, its
\* lookup finds the user, and it is never answered credentials_exception
\* once taken up.
C15_NoRevocation ==
    /\ [](\A i \in issued :
            ~(i.token.claims.exp < now)
                => ( /\ Authenticated(Bearer(i.token))
                     /\ FindUserByEmail(i.token.claims.sub) # <<>> ))
    /\ [][\A i \in issued :
            /\ ( /\ AnsweredOnArrival
                 /\ last'.op \in ProtectedOps
                 /\ last'.cred = Bearer(i.token) )
               => i.token.claims.exp < now
            /\ \A r \in DOMAIN pending :
                 ( /\ Answered(r)
                   /\ r.op \in ProtectedOps /\ r.pc = "get_current_user"
                   /\ r.cred = Bearer(i.token) )
                 => last'.resp.status = 200 ]_vars

\* /me was answered 200 for a token although a token with a later expiry
\* had been issued for the same subject
C15_Witness ==
    /\ last.op = "me"
    /\ last.resp.status = 200
    /\ IsIssued(last.cred)
    /\ \E j \in issued : /\ j.token.claims.sub = last.cred.token.claims.sub
                           /\ j.token.claims.exp > last.cred.token.claims.exp

----------------------------------------------------------------------------
\* C16: create_access_token(data, expires_delta) embeds the expiry
\* issue time + expires_delta for every expires_delta it is given, a zero
\* duration included, and the issue time + 15 minutes only when it is given
\* none.
C16_ExpiryIsIssueTimePlusDelta ==
    [][\A data \in TokenData, expires_delta \in TokenDeltas :
         ( /\ last'.op = "create_access_token"
           /\ last'.arg = TokenArg(data, expires_delta)
           /\ CreateAccessToken(data, expires_delta) )
         => last'.resp.claims.exp =
                IF expires_delta = NoDelta
                THEN now + FALLBACK_EXPIRE_MINUTES
                ELSE now + expires_delta[1]]_vars

----------------------------------------------------------------------------
\* this step removed the video at position k, and it is the delete_one of a
\* delete_video request for that video's id made by the user the video
\* belongs to
RemovedByOwner(k) ==
    /\ videos' = SubSeq(videos, 1, k - 1) \o SubSeq(videos, k + 1, Len(videos))
    /\ \E r \in DOMAIN pending, s \in DOMAIN pending' :
          /\ HandlerCallExecutes(r, s, "delete")
          /\ r.arg = VideoArg(videos[k].id)
          /\ r.current_user.id = videos[k].user_id
          /\ Caller(r.cred).id = videos[k].user_id

\* C17: stored records are immutable.  No step changes or removes a stored
\* user record; no step changes a field of a stored video record; a stored
\* video record goes away only by a delete_video of its owner.
C17_StoredRecordsImmutable ==
    [][ /\ Len(users') >= Len(users)
        /\ SubSeq(users', 1, Len(users)) = users
        /\ \/ /\ Len(videos') >= Len(videos)
              /\ SubSeq(videos', 1, Len(videos)) = videos
           \/ \E k \in 1..Len(videos) : RemovedByOwner(k) ]_vars

\* the owner deleted the stored video while two user records were stored
C17_Witness ==
    /\ last.op = "delete"
    /\ last.resp.status = 200
    /\ Len(users) = 2
    /\ videos = <<>>

----------------------------------------------------------------------------
\* C18: in every reachable state each stored video has exactly one owner (its
\* user_id is the id of exactly one stored user record), and no two stored
\* videos have the same id.
C18_OneOwnerDistinctIds ==
    /\ \A v \in Videos :
          Cardinality({ i \in 1..Len(users) : users[i].id = v.user_id }) = 1
    /\ Cardinality({ v.id : v \in Videos }) = Len(videos)

\* videos of two owners are stored, the one uploaded last next to an earlier
\* one of the same owner
C18_Witness ==
    /\ last.op = "upload"
    /\ last.resp.status = 200
    /\ \E v, w \in Videos : v.user_id # w.user_id
    /\ \E v \in Videos : /\ v.id # last.resp.body.video_id
                           /\ v.user_id = videos[Len(videos)].user_id
    /\ videos[Len(videos)].id = last.resp.body.video_id
    /\ \E up \in uploaded : up.video_id = last.resp.body.video_id

----------------------------------------------------------------------------
\* the token is the one a successful register call returned for the user
\* record it created
FromRegister(i) ==
    /\ i.by = "register"
    /\ \E u \in Users : u.id = i.uid /\ u.email = i.token.claims.sub

\* C19: under any interleaving of requests, two callers whose tokens come
\* from two different successful register calls never act as the same user:
\* a video uploaded with the token of one is never listed, returned or
\* deleted by a request that carries the token of the other.
C19_RegistrantsNeverShareVideos ==
    \A i, j \in issued :
        (FromRegister(i) /\ FromRegister(j) /\ i.uid # j.uid)
            => \A up \in uploaded :
                   ~( /\ up.token = i.token
                      /\ last.cred = Bearer(j.token)
                      /\ last.resp.status = 200
                      /\ \/ /\ last.op \in {"get", "delete"}
                            /\ last.arg = VideoArg(up.video_id)
                         \/ /\ last.op = "list"
                            /\ \E k \in 1..Len(last.resp.body.items) :
                                  last.resp.body.items[k].id = up.video_id )

----------------------------------------------------------------------------
\* the delete_one of this request in flight has removed a record
HasRemoved(r) ==
    r.op = "delete" /\ r.pc = "delete_one" /\ r.done /\ r.res[1].deleted_count = 1

\* C20: delete_one is one atomic store step, so delete_video requests of the
\* owner for one video id take effect one after another, however they
\* overlap: the delete_one executed first removes the record (one record,
\* once) and its request is answered 200; every other finds nothing, removes
\* nothing and is answered 404 "Video not found".  Of the requests in flight
\* for one id at most one has removed a record.
C20_OwnerDeletesOnce ==
    /\ [](\A r \in DOMAIN pending :
            HasRemoved(r)
               => ( /\ pending[r] = 1
                    /\ r.arg.video_id \notin VideoIdsStored
                    /\ \A q \in DOMAIN pending :
                          (HasRemoved(q) /\ q.arg = r.arg) => q = r ))
    /\ [][\A r \in DOMAIN pending :
            r.op = "delete"
               => /\ \A s \in DOMAIN pending' :
                       HandlerCallExecutes(r, s, "delete")
                          => IF \E v \in Videos : /\ v.id = r.arg.video_id
                                                  /\ v.user_id = r.current_user.id
                             THEN /\ s.res = <<[deleted_count |-> 1]>>
                                  /\ Len(videos') = Len(videos) - 1
                                  /\ \A k \in 1..Len(videos') :
                                        videos'[k].id # r.arg.video_id
                             ELSE /\ s.res = <<[deleted_count |-> 0]>>
                                  /\ videos' = videos
                  /\ HandlerAnswers(r, "delete")
                       => ( /\ last'.op = "delete"
                            /\ last'.cred = r.cred /\ last'.arg = r.arg
                            /\ videos' = videos
                            /\ IF r.res[1].deleted_count = 1
                               THEN last'.resp.status = 200
                               ELSE last'.resp = VideoNotFound )]_vars

\* of two delete requests of the owner in flight together for one id, the
\* one whose delete_one ran second was just answered 404 while the one that
\* removed the record is still to be answered
C20_Witness ==
    /\ last.op = "delete"
    /\ last.resp = VideoNotFound
    /\ last.arg # NoArg
    /\ \E r \in DOMAIN pending : /\ HasRemoved(r)
                                  /\ r.arg = last.arg
                                  /\ r.cred = last.cred

----------------------------------------------------------------------------
\* the operations that only read
ReadOnlyOps == {"login", "me", "list", "get"}

\* C21: the read-only operations login, me, get_user_videos and get_video,
\* whether they succeed or fail, leave the user store and the video store
\* unchanged, in every step they take.
C21_ReadOnlyOperations ==
    [][ /\ (AnsweredOnArrival /\ last'.op \in ReadOnlyOps) => StoresUnchanged
        /\ \A r \in DOMAIN pending' :
              (Admits(r) /\ r.op \in ReadOnlyOps) => StoresUnchanged
        /\ \A r \in DOMAIN pending :
              r.op \in ReadOnlyOps
                 => /\ Answered(r) => (last'.op = r.op /\ StoresUnchanged)
                    /\ \A s \in DOMAIN pending' :
                          Proceeds(r, s) => StoresUnchanged ]_vars

\* a list was answered 200 with the summary of a stored video, after a login
\* had handed out a token, and the stores hold what they held
C21_Witness ==
    /\ last.op = "list"
    /\ last.resp.status = 200
    /\ Len(last.resp.body.items) = 1
    /\ Len(videos) = 1
    /\ last.resp.body.items[1].id = videos[1].id
    /\ \E i \in issued : i.by = "login"

----------------------------------------------------------------------------
\* C22: no response of any endpoint, successful or failed, carries a
\* hashed_password, neither in its body nor in the elements of a list or in
\* a token and its claims: /me returns exactly id, email, phone and
\* created_at of the resolved user, and register and login return exactly
\* the token, whose claims are sub and exp, and the token type.
C22_NoHashedPasswordInResponses ==
    /\ LET body == last.resp.body
       IN "hashed_password" \notin
             DOMAIN body
               \cup (IF "items" \in DOMAIN body
                     THEN UNION { DOMAIN body.items[k] : k \in 1..Len(body.items) }
                     ELSE {})
               \cup (IF "access_token" \in DOMAIN body
                     THEN DOMAIN body.access_token \cup DOMAIN body.access_token.claims
                     ELSE {})
    /\ (last.op = "me" /\ last.resp.status = 200)
          => /\ DOMAIN last.resp.body = {"id", "email", "phone", "created_at"}
             /\ last.resp.body.id = Caller(last.cred).id
             /\ last.resp.body.email = Caller(last.cred).email
             /\ last.resp.body.phone = Caller(last.cred).phone
             /\ last.resp.body.created_at = Caller(last.cred).created_at
    /\ (last.op \in {"register", "login"} /\ last.resp.status = 200)
          => /\ DOMAIN last.resp.body = {"access_token", "token_type"}
             /\ DOMAIN last.resp.body.access_token.claims = {"sub", "exp"}

\* /me answered 200 for a user whose stored record holds a hashed password
C22_Witness ==
    /\ last.op = "me"
    /\ last.resp.status = 200
    /\ "hashed_password" \in DOMAIN Caller(last.cred)
    /\ Caller(last.cred).hashed_password = get_password_hash("SecurePass2024!", FreshSalt(1))
    /\ last.resp.body.email = "sarah@example.com"

====
